---- MODULE Spec2Model ----
(***************************************************************************)
(* Model of the miral NFT bridge: AppController (login, updateL1Contract,  *)
(* getByteCode), Web3Controller.callContract, Web3Service and NftService.  *)
(* Every await of the TypeScript code is a point where another request may *)
(* run, so each handler is cut into one action per await.                  *)
(***************************************************************************)
EXTENDS Integers, Sequences, FiniteSets, TLC

\* ------------------------------------------------------------ model size
MaxCalls == 2          \* requests started in one behaviour

Procs == {1, 2}        \* request slots: two requests may be in progress
L1Addrs == {1, 2}      \* L1 contract addresses the requests name
Tokens == {1}          \* token ids the requests name
EmptyCodeAddr == 3     \* an L1 address that holds no code (self-destructed)
DeployAddrs == L1Addrs \cup {EmptyCodeAddr}
L2Addr(k) == 100 + k   \* address of the k-th contract deployed on L2
L2Addrs == {L2Addr(k) : k \in 1..(MaxCalls + 1)}
Chains == {"L1", "L2"}

\* ------------------------------------------------------------- addresses
ZERO_ADDRESS == "0x0000000000000000000000000000000000000000"

\* Owner addresses a login is tried with: the L1 owner's account in
\* lower-case spelling, and a second account.
OwnerInputs == {"0xaa", "0xbb"}

\* String.prototype.toLowerCase on the address strings of the model.
ToLowerCase(s) ==
  CASE s = "0xAA" -> "0xaa"
    [] s = "0xBB" -> "0xbb"
    [] OTHER -> s

\* The ledger keeps an address as 20 bytes and the provider returns it in
\* checksum spelling.
Checksum(s) ==
  CASE s = "0xaa" -> "0xAA"
    [] s = "0xbb" -> "0xBB"
    [] OTHER -> s

\* ------------------------------------------------------------------ URIs
\* A URI string is held as the sequence of its "/"-separated segments, which
\* is what String.prototype.split("/") returns.
L1Uri == <<"ipfs", "m1">>
GenericUri == <<"g">>
SlashUri == <<"ipfs", "m2">>
EmptyUri == <<"">>

\* Array.prototype.pop on the split parts: the last segment.
PopLast(parts) == parts[Len(parts)]

\* getNFTMetadata: [baseUri, tokenUri] of the string the contract returned.
GetNFTMetadataMutFull(tokenMetadata) ==
  [baseUri |-> <<>>, tokenUri |-> tokenMetadata]

GetNFTMetadata(tokenMetadata) ==
  [baseUri |-> SubSeq(tokenMetadata, 1, Len(tokenMetadata) - 1),
   tokenUri |-> <<PopLast(tokenMetadata)>>]

\* The requests the handlers are tried with.
LoginRequests ==
  {r \in OwnerInputs \X L1Addrs \X Tokens : r[1] = "0xaa" \/ r[2] = 1}
UpdateAddrs == {L2Addr(1), L2Addr(2)}
DeployArgs == {<<>>, <<"n">>, <<"n", "s">>}
CallReq(c, a, f, args) == [chain |-> c, addr |-> a, fn |-> f, args |-> args]
CallRequests ==
  {CallReq("L1", 1, "ownerOf", <<1>>),
   CallReq("L1", 1, "ownerOf", <<>>),
   CallReq("L1", 1, "nope", <<>>),
   CallReq("L1", 1, "Transfer", <<1>>),
   CallReq("L1", 2, "tokenURI", <<1>>),
   CallReq("L2", L2Addr(1), "setTokenURI", <<1, GenericUri>>),
   CallReq("L2", L2Addr(1), "setTokenURI", <<1, SlashUri>>),
   CallReq("L2", L2Addr(1), "setTokenURI", <<1>>),
   CallReq("other", 1, "ownerOf", <<1>>)}

\* ------------------------------------------------------------------ ABIs
Frag(t, n, i, m) ==
  [type |-> t, name |-> n, inputs |-> i, stateMutability |-> m]

FunctionFrags ==
  <<Frag("function", "ownerOf", 1, "view"),
    Frag("function", "tokenURI", 1, "view"),
    Frag("function", "mint", 2, "nonpayable"),
    Frag("function", "setTokenURI", 2, "nonpayable"),
    Frag("event", "Transfer", 3, "")>>

AbiWithCtor == <<Frag("constructor", "", 2, "nonpayable")>> \o FunctionFrags
AbiNoCtor == FunctionFrags

\* ScannerService.getAbi: the ABI the explorer serves for an L1 address.
ScannerAbi(nft) == IF nft = 1 THEN AbiWithCtor ELSE AbiNoCtor

\* provider.getCode on L1: "0x" for an address that holds no code.
EmptyCode == "0x"
L1Code(nft) ==
  CASE nft = 1 -> "0x6080"
    [] nft = EmptyCodeAddr -> EmptyCode
    [] OTHER -> "0x6081"

\* L1 ownerOf: every token of every L1 contract belongs to account aa.
L1OwnerOf(nft, tok) == "0xAA"

\* Index of the first TRUE of a sequence of test results, 0 when there is
\* none (Array.prototype.find / Model.findOne over the tested elements).
FirstIdx(hits) ==
  IF \E i \in 1..Len(hits) : hits[i]
    THEN CHOOSE i \in 1..Len(hits) :
           hits[i] /\ \A j \in 1..(i - 1) : ~hits[j]
    ELSE 0

\* Web3Service.supportsFunction
SupportsFunction(abi, functionName) ==
  \E i \in 1..Len(abi) : abi[i].name = functionName

\* Web3Service.isOwner, the comparison on the resolved owner.
IsOwnerResultMutExact(owner, ownerAddress) == owner = ownerAddress

IsOwnerResult(owner, ownerAddress) ==
  ToLowerCase(owner) = ToLowerCase(ownerAddress)

\* Web3Service.isMinted, the comparison on the resolved owner.
IsMintedResultMutNever(owner) == FALSE

IsMintedResult(owner) == ToLowerCase(owner) # ToLowerCase(ZERO_ADDRESS)

\* JavaScript truthiness of the value held in a local: a Promise object is
\* truthy whatever it resolves to.
Truthy(v) == v.kind = "promise" \/ (v.kind = "bool" /\ v.val)

\* ----------------------------------------------------------------- state
VARIABLES
  registry,   \* the Nft collection: documents in insertion order
  l1uri,      \* L1 ledger: token URI per contract and token
  l2owner,    \* L2 ledger: owner per deployed contract and token
  l2uri,      \* L2 ledger: token URI per deployed contract and token
  l2code,     \* L2 ledger: code deployed at each address, "" = none yet
  deployed,   \* number of contracts deployed on L2 so far
  mempool,    \* per chain: transactions accepted by the node, not yet mined
  pc,         \* per request: the await it is suspended at
  inp,        \* per request: the handler's parameters
  loc,        \* per request: the handler's locals
  result,     \* per request: how the handler ended
  calls,      \* per request: ledger RPCs issued and settled, in order
  isOwnerP,   \* per request: state of the Promise returned by isOwner
  started,    \* number of requests started
  mints       \* per L2 contract and token: mint transactions login submitted

vars == <<registry, l1uri, l2owner, l2uri, l2code, deployed, mempool, pc, inp, loc,
          result, calls, isOwnerP, started, mints>>

NoInp == [flow |-> "", owner |-> "", addr |-> 0, tok |-> 0, args |-> <<>>,
          fn |-> "", chain |-> ""]
NoLoc == [doc |-> 0, abi |-> <<>>, l2 |-> 0, tokenMetadata |-> <<>>,
          tokenUri |-> <<>>,
          bytecode |-> "", exists |-> FALSE, owner |-> "",
          isOwner |-> [kind |-> "undefined", val |-> FALSE]]
NoResult == [kind |-> "none", msg |-> "", l2 |-> 0, uri |-> <<>>]

\* How a handler ends: a 200 response, a thrown error, or another returned
\* value (undefined, INVALID_CHAIN_TYPE, UNSUPPORTED_FUNCTION).
Ok(l2, uri) == [kind |-> "ok", msg |-> "", l2 |-> l2, uri |-> uri]
Threw(msg) == [kind |-> "error", msg |-> msg, l2 |-> 0, uri |-> <<>>]
Returned(kind) == [kind |-> kind, msg |-> "", l2 |-> 0, uri |-> <<>>]

Call(chain, to, op, ev) == [chain |-> chain, to |-> to, op |-> op, ev |-> ev]

\* The collection is persistent: the service starts with it empty, or with
\* the document an earlier deployment of L1 contract 1 has saved.
SavedBinding ==
  [l1Address |-> 1, l2Address |-> L2Addr(1), abi |-> AbiWithCtor,
   byteCode |-> "undefined"]

Init ==
  /\ registry \in {<<>>, <<SavedBinding>>}
  /\ l1uri = [a \in L1Addrs |-> [t \in Tokens |-> L1Uri]]
  /\ l2owner = [a \in L2Addrs |-> [t \in Tokens |-> ZERO_ADDRESS]]
  /\ l2uri = [a \in L2Addrs |-> [t \in Tokens |-> EmptyUri]]
  /\ l2code = [a \in L2Addrs |->
                 IF registry # <<>> /\ a = SavedBinding.l2Address
                   THEN L1Code(SavedBinding.l1Address) ELSE ""]
  /\ deployed = Len(registry)
  /\ mempool = [c \in Chains |-> <<>>]
  /\ pc = [p \in Procs |-> "idle"]
  /\ inp = [p \in Procs |-> NoInp]
  /\ loc = [p \in Procs |-> NoLoc]
  /\ result = [p \in Procs |-> NoResult]
  /\ calls = [p \in Procs |-> <<>>]
  /\ isOwnerP = [p \in Procs |-> "none"]
  /\ started = 0
  /\ mints = [a \in L2Addrs |-> [t \in Tokens |-> 0]]

\* ------------------------------------------------------------ NftService
\* findOneByL1Address / findOneByL2Address: index of the document, 0 = null.
FindOneByL1Address(reg, l1Address) ==
  FirstIdx([i \in 1..Len(reg) |-> reg[i].l1Address = l1Address])

FindOneByL2Address(reg, l2Address) ==
  FirstIdx([i \in 1..Len(reg) |-> reg[i].l2Address = l2Address])

\* NftService.create, the part after the findOne has resolved.
CreateSaveMutAlways(reg, alreadyExists, l1Address, l2Address, abi, byteCode) ==
  Append(reg, [l1Address |-> l1Address, l2Address |-> l2Address,
               abi |-> abi, byteCode |-> byteCode])

CreateSave(reg, alreadyExists, l1Address, l2Address, abi, byteCode) ==
  IF ~alreadyExists
    THEN Append(reg, [l1Address |-> l1Address, l2Address |-> l2Address,
                      abi |-> abi, byteCode |-> byteCode])
    ELSE reg

\* --------------------------------------------------------------- ledgers
Tx(to, fn, owner, tok, uri) ==
  [to |-> to, fn |-> fn, owner |-> owner, tok |-> tok, uri |-> uri]

\* A mint of a token that already has an owner reverts.
MintReverts(l2, tok) == l2owner[l2][tok] # ZERO_ADDRESS

\* Whether the address holds contract code on the chain.  A transaction sent
\* to an address without code is included and changes nothing; a read of it
\* returns no data.
HasCode(c, addr) ==
  IF c = "L1" THEN L1Code(addr) # EmptyCode
              ELSE l2code[addr] \notin {"", EmptyCode}

\* The node includes the oldest pending transaction of a chain in a block.
Mine(c) ==
  /\ mempool[c] # <<>>
  /\ LET tx == Head(mempool[c]) IN
       /\ mempool' = [mempool EXCEPT ![c] = Tail(@)]
       /\ IF c = "L1"
            THEN /\ l1uri' = IF tx.fn = "setTokenURI" /\ HasCode(c, tx.to)
                               THEN [l1uri EXCEPT ![tx.to][tx.tok] = tx.uri]
                               ELSE l1uri
                 /\ UNCHANGED <<l2owner, l2uri>>
            ELSE /\ l2owner' = IF /\ tx.fn = "mint" /\ HasCode(c, tx.to)
                                    /\ ~MintReverts(tx.to, tx.tok)
                                 THEN [l2owner EXCEPT ![tx.to][tx.tok] =
                                                        Checksum(tx.owner)]
                                 ELSE l2owner
                 /\ l2uri' = IF tx.fn = "setTokenURI" /\ HasCode(c, tx.to)
                               THEN [l2uri EXCEPT ![tx.to][tx.tok] = tx.uri]
                               ELSE l2uri
                 /\ UNCHANGED l1uri
  /\ UNCHANGED <<registry, l2code, deployed, pc, inp, loc, result, calls, isOwnerP,
                 started, mints>>

\* ------------------------------------------------------- request helpers
Log(p, cs) == [calls EXCEPT ![p] = @ \o cs]

Finish(p, r) ==
  /\ pc' = [pc EXCEPT ![p] = "done"]
  /\ result' = [result EXCEPT ![p] = r]

Goto(p, label) ==
  /\ pc' = [pc EXCEPT ![p] = label]
  /\ UNCHANGED result

\* A request arrives and its handler runs up to its first await.  The
\* parameters are recorded by the step that first reads them.
Begin(p, label, flow) ==
  /\ pc[p] = "idle"
  /\ started < MaxCalls
  /\ started' = started + 1
  /\ pc' = [pc EXCEPT ![p] = label]
  /\ inp' = [inp EXCEPT ![p].flow = flow]
  /\ UNCHANGED <<registry, l1uri, l2owner, l2uri, l2code, deployed, mempool, loc,
                 result, calls, isOwnerP, mints>>

\* The HTTP layer has sent the response; the request slot is free again.
Return(p) ==
  /\ pc[p] = "done"
  /\ isOwnerP[p] # "pending"
  /\ pc' = [pc EXCEPT ![p] = "idle"]
  /\ inp' = [inp EXCEPT ![p] = NoInp]
  /\ loc' = [loc EXCEPT ![p] = NoLoc]
  /\ result' = [result EXCEPT ![p] = NoResult]
  /\ calls' = [calls EXCEPT ![p] = <<>>]
  /\ isOwnerP' = [isOwnerP EXCEPT ![p] = "none"]
  /\ UNCHANGED <<registry, l1uri, l2owner, l2uri, l2code, deployed, mempool, started, mints>>

\* ------------------------------------------- AppController.login (Flow A)
LoginStart(p) == Begin(p, "login_find", "login")

\* The value the local isOwner holds: isOwner(...) is called without await,
\* so the local is the pending Promise.
IsOwnerLocal == [kind |-> "promise", val |-> FALSE]

\* findOneByL1Address has resolved.  isDeployed.l2Address is read before the
\* null test, isOwner is started (its ownerOf RPC goes out) and, the local
\* being truthy, getNFTMetadata is started.
LoginFind(p) ==
  /\ pc[p] = "login_find"
  /\ \E r \in LoginRequests :
       LET idx == FindOneByL1Address(registry, r[2]) IN
         /\ inp' = [inp EXCEPT ![p].owner = r[1], ![p].addr = r[2],
                               ![p].tok = r[3]]
         /\ IF idx = 0
              THEN /\ Finish(p, Threw("TypeError"))
                   /\ UNCHANGED <<loc, calls, isOwnerP>>
              ELSE /\ loc' = [loc EXCEPT ![p].doc = idx,
                                         ![p].l2 = registry[idx].l2Address,
                                         ![p].abi = registry[idx].abi,
                                         ![p].isOwner = IsOwnerLocal]
                   /\ isOwnerP' = [isOwnerP EXCEPT ![p] = "pending"]
                   /\ IF Truthy(IsOwnerLocal)
                        THEN /\ calls' = Log(p,
                                   <<Call("L1", r[2], "ownerOf", "issue"),
                                     Call("L1", r[2], "tokenURI", "issue")>>)
                             /\ Goto(p, "login_meta")
                        ELSE /\ calls' = Log(p,
                                   <<Call("L1", r[2], "ownerOf", "issue")>>)
                             /\ Finish(p, Ok(registry[idx].l2Address, <<>>))
  /\ UNCHANGED <<registry, l1uri, l2owner, l2uri, l2code, deployed, mempool, started,
                 mints>>

\* The ownerOf RPC started by isOwner resolves; nothing awaits its value.
IsOwnerSettle(p) ==
  /\ isOwnerP[p] = "pending"
  /\ isOwnerP' = [isOwnerP EXCEPT ![p] =
                    IF IsOwnerResult(L1OwnerOf(inp[p].addr, inp[p].tok),
                                     inp[p].owner)
                      THEN "true" ELSE "false"]
  /\ calls' = Log(p, <<Call("L1", inp[p].addr, "ownerOf", "done")>>)
  /\ UNCHANGED <<registry, l1uri, l2owner, l2uri, l2code, deployed, mempool, mints,
                 pc, inp, loc, result, started>>

\* getNFTMetadata has resolved; isMinted is started (L2 ownerOf goes out).
LoginMeta(p) ==
  /\ pc[p] = "login_meta"
  /\ LET tokenMetadata == l1uri[inp[p].addr][inp[p].tok] IN
       loc' = [loc EXCEPT ![p].tokenMetadata = tokenMetadata,
                          ![p].tokenUri = GetNFTMetadata(tokenMetadata).tokenUri]
  /\ calls' = Log(p, <<Call("L1", inp[p].addr, "tokenURI", "done"),
                       Call("L2", loc[p].l2, "ownerOf", "issue")>>)
  /\ Goto(p, "login_isminted")
  /\ UNCHANGED <<registry, l1uri, l2owner, l2uri, l2code, deployed, mempool, mints,
                 inp, isOwnerP, started>>

\* isMinted has resolved; when false, mintNFT is started.
LoginIsMinted(p) ==
  /\ pc[p] = "login_isminted"
  /\ LET owner == l2owner[loc[p].l2][inp[p].tok] IN
       /\ loc' = [loc EXCEPT ![p].owner = owner]
       /\ IF IsMintedResult(owner)
            THEN /\ calls' = Log(p, <<Call("L2", loc[p].l2, "ownerOf", "done")>>)
                 /\ Finish(p, Ok(loc[p].l2, <<>>))
            ELSE /\ calls' = Log(p, <<Call("L2", loc[p].l2, "ownerOf", "done"),
                                      Call("L2", loc[p].l2, "mint", "issue")>>)
                 /\ Goto(p, "login_mint")
  /\ UNCHANGED <<registry, l1uri, l2owner, l2uri, l2code, deployed, mempool, mints,
                 inp, isOwnerP, started>>

\* contract.mint has settled.  It rejects when gas estimation reverts (the
\* token already has an owner) or the node fails, and the rejection leaves
\* login.  Otherwise the transaction is in the mempool and setTokenURI is
\* started.
LoginMintMutSwallow(p) ==
  /\ pc[p] = "login_mint"
  /\ IF MintReverts(loc[p].l2, inp[p].tok)
       THEN /\ calls' = Log(p, <<Call("L2", loc[p].l2, "mint", "revert"),
                                 Call("L2", loc[p].l2, "setTokenURI", "issue")>>)
            /\ Goto(p, "login_seturi")
            /\ UNCHANGED <<mempool, mints>>
       ELSE \E nodeOk \in BOOLEAN :
         IF nodeOk
           THEN /\ mempool' = [mempool EXCEPT !["L2"] = Append(@,
                    Tx(loc[p].l2, "mint", inp[p].owner, inp[p].tok, <<>>))]
                /\ mints' = [mints EXCEPT ![loc[p].l2][inp[p].tok] = @ + 1]
                /\ calls' = Log(p, <<Call("L2", loc[p].l2, "mint", "ok"),
                                     Call("L2", loc[p].l2, "setTokenURI", "issue")>>)
                /\ Goto(p, "login_seturi")
           ELSE /\ calls' = Log(p, <<Call("L2", loc[p].l2, "mint", "fail"),
                                     Call("L2", loc[p].l2, "setTokenURI", "issue")>>)
                /\ Goto(p, "login_seturi")
                /\ UNCHANGED <<mempool, mints>>
  /\ UNCHANGED <<registry, l1uri, l2owner, l2uri, l2code, deployed, inp, loc,
                 isOwnerP, started>>

LoginMint(p) ==
  /\ pc[p] = "login_mint"
  /\ IF MintReverts(loc[p].l2, inp[p].tok)
       THEN /\ calls' = Log(p, <<Call("L2", loc[p].l2, "mint", "revert")>>)
            /\ Finish(p, Threw("mint reverted"))
            /\ UNCHANGED <<mempool, mints>>
       ELSE \E nodeOk \in BOOLEAN :
         IF nodeOk
           THEN /\ mempool' = [mempool EXCEPT !["L2"] = Append(@,
                    Tx(loc[p].l2, "mint", inp[p].owner, inp[p].tok, <<>>))]
                /\ mints' = [mints EXCEPT ![loc[p].l2][inp[p].tok] = @ + 1]
                /\ calls' = Log(p, <<Call("L2", loc[p].l2, "mint", "ok"),
                                     Call("L2", loc[p].l2, "setTokenURI", "issue")>>)
                /\ Goto(p, "login_seturi")
           ELSE /\ calls' = Log(p, <<Call("L2", loc[p].l2, "mint", "fail")>>)
                /\ Finish(p, Threw("mint"))
                /\ UNCHANGED <<mempool, mints>>
  /\ UNCHANGED <<registry, l1uri, l2owner, l2uri, l2code, deployed, inp, loc,
                 isOwnerP, started>>

\* contract.setTokenURI has settled; on success login returns its response.
LoginSetUri(p) ==
  /\ pc[p] = "login_seturi"
  /\ \E nodeOk \in BOOLEAN :
       IF nodeOk
         THEN /\ mempool' = [mempool EXCEPT !["L2"] = Append(@,
                  Tx(loc[p].l2, "setTokenURI", "", inp[p].tok,
                     loc[p].tokenUri))]
              /\ calls' = Log(p, <<Call("L2", loc[p].l2, "setTokenURI", "ok")>>)
              /\ Finish(p, Ok(loc[p].l2, <<>>))
         ELSE /\ calls' = Log(p, <<Call("L2", loc[p].l2, "setTokenURI", "fail")>>)
              /\ Finish(p, Threw("setTokenURI"))
              /\ UNCHANGED mempool
  /\ UNCHANGED <<registry, l1uri, l2owner, l2uri, l2code, deployed, mints, inp, loc,
                 isOwnerP, started>>

\* ------------------------------- AppController.updateL1Contract (Flow B)
UpdateStart(p) == Begin(p, "upd_find", "update")

\* constracts.l1Address of the document the request found.
L1Of(p) == registry[loc[p].doc].l1Address

\* findOneByL2Address has resolved; without a document the handler falls off
\* its end and returns undefined.  Otherwise getNFTMetadata is started on L2.
UpdFind(p) ==
  /\ pc[p] = "upd_find"
  /\ \E a \in UpdateAddrs, t \in Tokens :
       LET idx == FindOneByL2Address(registry, a) IN
         /\ inp' = [inp EXCEPT ![p].addr = a, ![p].tok = t]
         /\ IF idx = 0
              THEN /\ Finish(p, Returned("undefined"))
                   /\ UNCHANGED <<loc, calls>>
              ELSE /\ loc' = [loc EXCEPT ![p].doc = idx,
                                         ![p].l2 = a,
                                         ![p].abi = registry[idx].abi]
                   /\ calls' = Log(p, <<Call("L2", a, "tokenURI", "issue")>>)
                   /\ Goto(p, "upd_meta")
  /\ UNCHANGED <<registry, l1uri, l2owner, l2uri, l2code, deployed, mempool,
                 isOwnerP, started, mints>>

\* getNFTMetadata has settled: contract.tokenURI rejects when the address
\* returns no data; otherwise setTokenURI is started on L1.
UpdMeta(p) ==
  /\ pc[p] = "upd_meta"
  /\ IF ~HasCode("L2", inp[p].addr)
       THEN /\ calls' = Log(p, <<Call("L2", inp[p].addr, "tokenURI", "fail")>>)
            /\ Finish(p, Threw("BAD_DATA"))
            /\ UNCHANGED loc
       ELSE LET tokenMetadata == l2uri[inp[p].addr][inp[p].tok] IN
            /\ loc' = [loc EXCEPT
                         ![p].tokenMetadata = tokenMetadata,
                         ![p].tokenUri = GetNFTMetadata(tokenMetadata).tokenUri]
            /\ calls' = Log(p, <<Call("L2", inp[p].addr, "tokenURI", "done"),
                                 Call("L1", L1Of(p), "setTokenURI", "issue")>>)
            /\ Goto(p, "upd_seturi")
  /\ UNCHANGED <<registry, l1uri, l2owner, l2uri, l2code, deployed, mempool, inp,
                 isOwnerP, started, mints>>

\* setTokenURI on L1 has settled.
UpdSetUri(p) ==
  /\ pc[p] = "upd_seturi"
  /\ \E nodeOk \in BOOLEAN :
       IF nodeOk
         THEN /\ mempool' = [mempool EXCEPT !["L1"] = Append(@,
                  Tx(L1Of(p), "setTokenURI", "",
                     inp[p].tok, loc[p].tokenUri))]
              /\ calls' = Log(p, <<Call("L1", L1Of(p), "setTokenURI", "ok")>>)
              /\ Finish(p, Ok(inp[p].addr, loc[p].tokenUri))
         ELSE /\ calls' = Log(p, <<Call("L1", L1Of(p), "setTokenURI", "fail")>>)
              /\ Finish(p, Threw("setTokenURI"))
              /\ UNCHANGED mempool
  /\ UNCHANGED <<registry, l1uri, l2owner, l2uri, l2code, deployed, inp, loc,
                 isOwnerP, started, mints>>

\* ------------------------------------ AppController.getByteCode (Flow C)
DeployStart(p) == Begin(p, "dep_code", "deploy")

\* getByteCode has resolved; scannerService.getAbi is started.
DepCode(p) ==
  /\ pc[p] = "dep_code"
  /\ \E a \in DeployAddrs :
       /\ inp' = [inp EXCEPT ![p].addr = a]
       /\ loc' = [loc EXCEPT ![p].bytecode = L1Code(a)]
       /\ calls' = Log(p, <<Call("L1", a, "getCode", "issue"),
                            Call("L1", a, "getCode", "done")>>)
  /\ Goto(p, "dep_abi")
  /\ UNCHANGED <<registry, l1uri, l2owner, l2uri, l2code, deployed, mempool,
                 isOwnerP, started, mints>>

\* deployFromByteCode, its own argument check: made only when the ABI has a
\* constructor fragment.
ConstructorCheckFails(abi, constructorArgs) ==
  LET i == FirstIdx([k \in 1..Len(abi) |-> abi[k].type = "constructor"])
  IN  i # 0 /\ Len(constructorArgs) # abi[i].inputs

\* ContractFactory.getDeployTransaction(...constructorArgs): one argument
\* more than the constructor takes is popped as the overrides object; any
\* other difference in number throws before a request is made.
FactoryRejects(abi, constructorArgs) ==
  LET i == FirstIdx([k \in 1..Len(abi) |-> abi[k].type = "constructor"])
      arity == IF i = 0 THEN 0 ELSE abi[i].inputs
      n == IF arity + 1 = Len(constructorArgs)
             THEN Len(constructorArgs) - 1 ELSE Len(constructorArgs)
  IN  arity # n

\* getAbi has resolved; deployFromByteCode runs up to its first request.
DepAbi(p) ==
  /\ pc[p] = "dep_abi"
  /\ \E args \in DeployArgs :
       LET abi == ScannerAbi(inp[p].addr) IN
         /\ inp' = [inp EXCEPT ![p].args = args]
         /\ loc' = [loc EXCEPT ![p].abi = abi]
         /\ IF ConstructorCheckFails(abi, args)
              THEN /\ Finish(p, Threw("Invalid constructor arguments."))
                   /\ UNCHANGED calls
              ELSE IF FactoryRejects(abi, args)
                THEN /\ Finish(p, Threw("incorrect number of arguments"))
                     /\ UNCHANGED calls
                ELSE /\ calls' = Log(p, <<Call("L2", 0, "deploy", "issue")>>)
                     /\ Goto(p, "dep_deploy")
  /\ UNCHANGED <<registry, l1uri, l2owner, l2uri, l2code, deployed, mempool,
                 isOwnerP, started, mints>>

\* estimateGas and factory.deploy have settled; on success the new contract
\* has its address and nftService.create is started.
DepDeploy(p) ==
  /\ pc[p] = "dep_deploy"
  /\ \E nodeOk \in BOOLEAN :
       IF nodeOk
         THEN /\ deployed' = deployed + 1
              /\ l2code' = [l2code EXCEPT ![L2Addr(deployed + 1)] =
                                              loc[p].bytecode]
              /\ loc' = [loc EXCEPT ![p].l2 = L2Addr(deployed + 1)]
              /\ calls' = Log(p, <<Call("L2", 0, "deploy", "ok")>>)
              /\ Goto(p, "dep_create")
         ELSE /\ calls' = Log(p, <<Call("L2", 0, "deploy", "fail")>>)
              /\ Finish(p, Threw("deploy"))
              /\ UNCHANGED <<deployed, l2code, loc>>
  /\ UNCHANGED <<registry, l1uri, l2owner, l2uri, mempool, inp, isOwnerP,
                 started, mints>>

\* NftService.create: its findOne has resolved.
DepCreateFind(p) ==
  /\ pc[p] = "dep_create"
  /\ loc' = [loc EXCEPT ![p].exists =
               FindOneByL1Address(registry, inp[p].addr) # 0]
  /\ Goto(p, "dep_save")
  /\ UNCHANGED <<registry, l1uri, l2owner, l2uri, l2code, deployed, mempool, inp,
                 calls, isOwnerP, started, mints>>

\* The byteCode argument getByteCode passes to create: it passes three
\* arguments, so the fourth parameter is undefined.
CreateByteCodeArg(bytecode) == "undefined"

\* NftService.create saves (or returns the document found), the filter is
\* created and the handler returns the address it deployed.
DepSave(p) ==
  /\ pc[p] = "dep_save"
  /\ registry' = CreateSave(registry, loc[p].exists, inp[p].addr, loc[p].l2,
                            loc[p].abi, CreateByteCodeArg(loc[p].bytecode))
  /\ Finish(p, Ok(loc[p].l2, <<>>))
  /\ UNCHANGED <<l1uri, l2owner, l2uri, l2code, deployed, mempool, inp, loc, calls,
                 isOwnerP, started, mints>>

\* ------------------------------- Web3Controller.callContract (Flow D)
CallStart(p) == Begin(p, "call_find", "call")

\* _getProviderData: index of the document of the chain's lookup, 0 = null,
\* and -1 when the chain type selects no lookup at all.
GetProviderDataMutNullAbi(reg, chainType, nftAddress) ==
  LET idx == CASE chainType = "L1" -> FindOneByL1Address(reg, nftAddress)
               [] chainType = "L2" -> FindOneByL2Address(reg, nftAddress)
               [] OTHER -> -1
  IN  IF idx = 0 THEN -1 ELSE idx

GetProviderData(reg, chainType, nftAddress) ==
  CASE chainType = "L1" -> FindOneByL1Address(reg, nftAddress)
    [] chainType = "L2" -> FindOneByL2Address(reg, nftAddress)
    [] OTHER -> -1

\* callContractFunction, the checks made before the contract is called:
\* "ok", or the error thrown.
CallShapeMutNoCount(abi, functionName, args) ==
  LET i == FirstIdx([k \in 1..Len(abi) |-> abi[k].name = functionName])
  IN  IF i = 0 THEN "not found" ELSE "ok"

CallShape(abi, functionName, args) ==
  LET i == FirstIdx([k \in 1..Len(abi) |-> abi[k].name = functionName])
  IN  IF i = 0 THEN "not found"
      ELSE IF Len(args) # abi[i].inputs THEN "Invalid number of arguments"
      ELSE "ok"

\* Whether calling the named member of the contract submits a transaction.
IsTransaction(abi, functionName) ==
  \E i \in 1..Len(abi) : /\ abi[i].name = functionName
                         /\ abi[i].type = "function"
                         /\ abi[i].stateMutability = "nonpayable"

\* _getProviderData has resolved and callContract runs up to the contract
\* call.
CallFind(p) ==
  /\ pc[p] = "call_find"
  /\ \E r \in CallRequests :
       LET idx == GetProviderData(registry, r.chain, r.addr) IN
         /\ inp' = [inp EXCEPT ![p].chain = r.chain, ![p].addr = r.addr,
                               ![p].fn = r.fn, ![p].args = r.args]
         /\ IF idx = -1
              THEN /\ Finish(p, Returned("INVALID_CHAIN_TYPE"))
                   /\ UNCHANGED <<loc, calls>>
            ELSE IF idx = 0
              THEN /\ Finish(p, Threw("TypeError"))
                   /\ UNCHANGED <<loc, calls>>
            ELSE /\ loc' = [loc EXCEPT ![p].doc = idx,
                                       ![p].abi = registry[idx].abi]
                 /\ IF ~SupportsFunction(registry[idx].abi, r.fn)
                      THEN /\ Finish(p, Returned("UNSUPPORTED_FUNCTION"))
                           /\ UNCHANGED calls
                    ELSE IF CallShape(registry[idx].abi, r.fn, r.args) # "ok"
                      THEN /\ Finish(p, Threw(CallShape(registry[idx].abi,
                                                        r.fn, r.args)))
                           /\ UNCHANGED calls
                    ELSE /\ calls' = Log(p, <<Call(r.chain, r.addr, r.fn,
                                                   "issue")>>)
                         /\ Goto(p, "call_rpc")
  /\ UNCHANGED <<registry, l1uri, l2owner, l2uri, l2code, deployed, mempool,
                 isOwnerP, started, mints>>

\* contract[functionName](...args) has settled.
CallRpc(p) ==
  /\ pc[p] = "call_rpc"
  /\ \E nodeOk \in BOOLEAN :
       IF nodeOk
         THEN /\ mempool' =
                   IF IsTransaction(loc[p].abi, inp[p].fn)
                     THEN [mempool EXCEPT ![inp[p].chain] = Append(@,
                             Tx(inp[p].addr, inp[p].fn, "", inp[p].args[1],
                                inp[p].args[2]))]
                     ELSE mempool
              /\ calls' = Log(p, <<Call(inp[p].chain, inp[p].addr, inp[p].fn,
                                        "ok")>>)
              /\ Finish(p, Ok(0, <<>>))
         ELSE /\ calls' = Log(p, <<Call(inp[p].chain, inp[p].addr, inp[p].fn,
                                        "fail")>>)
              /\ Finish(p, Threw(inp[p].fn))
              /\ UNCHANGED mempool
  /\ UNCHANGED <<registry, l1uri, l2owner, l2uri, l2code, deployed, inp, loc,
                 isOwnerP, started, mints>>

\* -------------------------------------------------------- specifications
Step(p) ==
  \/ LoginStart(p)
  \/ LoginFind(p)
  \/ IsOwnerSettle(p)
  \/ LoginMeta(p)
  \/ LoginIsMinted(p)
  \/ LoginMint(p)
  \/ LoginSetUri(p)
  \/ UpdateStart(p)
  \/ UpdFind(p)
  \/ UpdMeta(p)
  \/ UpdSetUri(p)
  \/ DeployStart(p)
  \/ DepCode(p)
  \/ DepAbi(p)
  \/ DepDeploy(p)
  \/ DepCreateFind(p)
  \/ DepSave(p)
  \/ CallStart(p)
  \/ CallFind(p)
  \/ CallRpc(p)
  \/ Return(p)

MineAny == \E c \in Chains : Mine(c)

Next == (\E p \in Procs : Step(p)) \/ MineAny

Spec == Init /\ [][Next]_vars

\* Requests served one at a time: a request runs to its response before the
\* next one starts.
OthersIdle(p) == \A q \in Procs \ {p} : pc[q] = "idle"

SeqNext == (\E p \in Procs : OthersIdle(p) /\ Step(p)) \/ MineAny

SeqSpec == Init /\ [][SeqNext]_vars

TypeOK ==
  /\ deployed \in 0..(MaxCalls + 1)
  /\ started \in 0..MaxCalls
  /\ \A p \in Procs : isOwnerP[p] \in {"none", "pending", "true", "false"}

\* ================================================================ claims
Confirmed(p) ==
  ToLowerCase(L1OwnerOf(inp[p].addr, inp[p].tok)) = ToLowerCase(inp[p].owner)

IsLogin(p) == inp[p].flow = "login"

\* The request's transaction submissions on L2, as <<op, event>> pairs.
IsL2Tx(c) == c.chain = "L2" /\ c.op \in {"mint", "setTokenURI", "deploy"}

Pair(c) == <<c.op, c.ev>>

L2TxEvents(p) ==
  LET txs == SelectSeq(calls[p], IsL2Tx)
  IN  [i \in 1..Len(txs) |-> Pair(txs[i])]

\* C1: a login whose claimed owner is not, ignoring case, the L1 owner of the
\* token issues no call to L2 (no ownerOf read, no mint, no setTokenURI).
C1_HardGate ==
  \A p \in Procs :
    IsLogin(p) /\ ~Confirmed(p) =>
      \A i \in 1..Len(calls[p]) : calls[p][i].chain # "L2"

\* C2: a login that reads a non-zero L2 owner for the token submits neither
\* mint nor setTokenURI.
C2_NoMintWhenMinted ==
  \A p \in Procs :
    IsLogin(p) /\ loc[p].owner \notin {"", ZERO_ADDRESS} =>
      \A i \in 1..Len(calls[p]) : calls[p][i].op \notin {"mint", "setTokenURI"}

C2_Witness ==
  \E p \in Procs :
    /\ IsLogin(p) /\ loc[p].owner \notin {"", ZERO_ADDRESS}
    /\ pc[p] = "done" /\ result[p].kind = "ok"

\* C2 as first stated: logins served one after the other submit mint for a
\* token at most once in total.
C2_MintAtMostOnce ==
  \A a \in L2Addrs, t \in Tokens : mints[a][t] <= 1

\* C3: a login of a confirmed owner that finds the token unminted submits
\* mint first and setTokenURI only once mint has been accepted, both on the
\* bound L2 address; when it returns its response it has submitted exactly
\* these two, and a rejected submission ends it with the later ones unmade.
C3_Orders ==
  {<<<<"mint", "issue">>>>,
   <<<<"mint", "issue">>, <<"mint", "fail">>>>,
   <<<<"mint", "issue">>, <<"mint", "revert">>>>,
   <<<<"mint", "issue">>, <<"mint", "ok">>, <<"setTokenURI", "issue">>>>,
   <<<<"mint", "issue">>, <<"mint", "ok">>, <<"setTokenURI", "issue">>,
     <<"setTokenURI", "fail">>>>,
   <<<<"mint", "issue">>, <<"mint", "ok">>, <<"setTokenURI", "issue">>,
     <<"setTokenURI", "ok">>>>}

C3_Full ==
  <<<<"mint", "issue">>, <<"mint", "ok">>, <<"setTokenURI", "issue">>,
    <<"setTokenURI", "ok">>>>

C3_MintThenSetUri ==
  \A p \in Procs :
    IsLogin(p) /\ Confirmed(p) /\ loc[p].owner = ZERO_ADDRESS =>
      /\ L2TxEvents(p) \in C3_Orders
      /\ \A i \in 1..Len(calls[p]) :
           calls[p][i].chain = "L2" =>
             calls[p][i].to = registry[loc[p].doc].l2Address
      /\ pc[p] = "done" /\ result[p].kind = "ok" => L2TxEvents(p) = C3_Full
      /\ pc[p] = "done" /\ L2TxEvents(p) = C3_Full => result[p].kind = "ok"

C3_Witness ==
  \E p \in Procs :
    /\ IsLogin(p) /\ Confirmed(p) /\ loc[p].owner = ZERO_ADDRESS
    /\ pc[p] = "done" /\ result[p].kind = "ok"
    /\ L2TxEvents(p) = C3_Full

\* C3 as first stated: every such login submits exactly the two transactions.
C3_ExactlyTwo ==
  \A p \in Procs :
    /\ IsLogin(p) /\ Confirmed(p) /\ loc[p].owner = ZERO_ADDRESS
    /\ pc[p] = "done"
    => L2TxEvents(p) = C3_Full

\* C4: a login whose claimed owner is not the L1 owner ends with the
\* OwnershipRejected outcome (or with a ledger failure it surfaces), never
\* with the success response.
C4_RejectedOutcome ==
  \A p \in Procs :
    IsLogin(p) /\ loc[p].doc # 0 /\ ~Confirmed(p) /\ pc[p] = "done" =>
      result[p].kind \in {"OwnershipRejected", "error"}

\* C5: on each chain at most one transaction submission is in flight.
InFlight(c) ==
  {p \in Procs :
     \/ c = "L2" /\ pc[p] \in {"login_mint", "login_seturi", "dep_deploy"}
     \/ c = "L1" /\ pc[p] = "upd_seturi"
     \/ /\ pc[p] = "call_rpc" /\ inp[p].chain = c
        /\ IsTransaction(loc[p].abi, inp[p].fn)}

C5_OneInFlight == \A c \in Chains : Cardinality(InFlight(c)) <= 1

\* C6: a login whose mint reverts because the token was minted meanwhile does
\* not end with an error.
C6_DuplicateMintNonFatal ==
  \A p \in Procs :
    /\ IsLogin(p) /\ pc[p] = "done"
    /\ \E i \in 1..Len(calls[p]) :
         calls[p][i].op = "mint" /\ calls[p][i].ev = "revert"
    => result[p].kind # "error"

\* C7: with deployments served one after the other, the collection never
\* holds two documents for one L1 address, a document once saved is never
\* changed, and a deployment that returns its response leaves a document for
\* its L1 address.
DocsFor(reg, a) == {i \in 1..Len(reg) : reg[i].l1Address = a}

C7_DeployIdempotent ==
  [][/\ \A i \in 1..Len(registry) :
          Len(registry') >= i /\ registry'[i] = registry[i]
     /\ \A a \in DeployAddrs : Cardinality(DocsFor(registry', a)) <= 1
     /\ \A p \in Procs :
          /\ inp'[p].flow = "deploy" /\ pc'[p] = "done"
          /\ result'[p].kind = "ok"
          => Cardinality(DocsFor(registry', inp'[p].addr)) = 1]_vars

\* A deployment for an L1 address that already had a document has returned.
C7_Witness ==
  \E p \in Procs :
    /\ inp[p].flow = "deploy" /\ pc[p] = "done" /\ result[p].kind = "ok"
    /\ loc[p].exists
    /\ registry[FindOneByL1Address(registry, inp[p].addr)].l2Address
         # loc[p].l2

\* C8: a deployment whose argument count differs from the constructor arity
\* of the descriptor (0 without a constructor fragment) makes no deployment
\* call and ends with an error.
ConstructorArity(abi) ==
  IF \E i \in 1..Len(abi) : abi[i].type = "constructor"
    THEN abi[CHOOSE i \in 1..Len(abi) : abi[i].type = "constructor"].inputs
    ELSE 0

NameIdx(abi, name) ==
  IF \E i \in 1..Len(abi) : abi[i].name = name
    THEN CHOOSE i \in 1..Len(abi) :
           abi[i].name = name /\ \A j \in 1..(i - 1) : abi[j].name # name
    ELSE 0

BadShape(p) ==
  LET i == NameIdx(loc[p].abi, inp[p].fn)
  IN  i = 0 \/ Len(inp[p].args) # loc[p].abi[i].inputs

C9_ShapeBeforeRpc ==
  \A p \in Procs :
    /\ inp[p].flow = "call" /\ inp[p].fn # "" /\ loc[p].doc > 0
    /\ BadShape(p)
    => /\ calls[p] = <<>>
       /\ pc[p] = "done"
       /\ result[p].kind \in {"UNSUPPORTED_FUNCTION", "error"}
       /\ NameIdx(loc[p].abi, inp[p].fn) = 0
            <=> result[p].kind = "UNSUPPORTED_FUNCTION"

C9_Witness ==
  \E p \in Procs :
    /\ inp[p].flow = "call" /\ loc[p].doc > 0
    /\ NameIdx(loc[p].abi, inp[p].fn) # 0 /\ BadShape(p)
    /\ pc[p] = "done" /\ result[p].kind = "error" /\ calls[p] = <<>>

\* C10: a login or an update that finds no document for its address ends
\* with a failure and issues no call to either ledger.
C10_BindingNotFound ==
  \A p \in Procs :
    /\ inp[p].flow \in {"login", "update"} /\ pc[p] = "done"
    /\ loc[p].doc = 0
    => result[p].kind = "error" /\ calls[p] = <<>>

\* C11: a callContract request whose chain type is neither L1 nor L2 returns
\* INVALID_CHAIN_TYPE with no document looked up and no RPC issued, whatever
\* the collection holds; a request whose chain type is L1 or L2 never returns
\* INVALID_CHAIN_TYPE, whether the collection holds a document for its
\* address or not.
C11_InvalidChainRole ==
  \A p \in Procs :
    inp[p].flow = "call" /\ inp[p].fn # "" =>
      /\ inp[p].chain \notin Chains =>
            /\ pc[p] = "done" /\ result[p].kind = "INVALID_CHAIN_TYPE"
            /\ calls[p] = <<>> /\ loc[p].doc = 0
      /\ inp[p].chain \in Chains => result[p].kind # "INVALID_CHAIN_TYPE"

\* One request of another chain type has been answered although the
\* collection holds a document for its address, and one L1 request has ended
\* without a document for its address.
C11_Witness ==
  \E p, q \in Procs :
    /\ inp[p].flow = "call" /\ inp[p].chain \notin Chains /\ inp[p].fn # ""
    /\ pc[p] = "done" /\ result[p].kind = "INVALID_CHAIN_TYPE"
    /\ FindOneByL1Address(registry, inp[p].addr) # 0
    /\ inp[q].flow = "call" /\ inp[q].chain \in Chains
    /\ pc[q] = "done" /\ loc[q].doc = 0 /\ result[q].kind = "error"

\* C12: a deployment for an L1 address that already has a document in the
\* collection makes no deployment call on L2 and returns the L2 address of
\* the document the collection holds.
C12_RegistryFirst ==
  \A p \in Procs :
    /\ inp[p].flow = "deploy" /\ pc[p] \in {"dep_save", "done"}
    /\ loc[p].exists
    => /\ \A i \in 1..Len(calls[p]) : calls[p][i].op # "deploy"
       /\ pc[p] = "done" /\ result[p].kind = "ok" =>
            result[p].l2 =
              registry[FindOneByL1Address(registry, inp[p].addr)].l2Address

\* C13: a getNFTMetadata read of an L2 token whose URI was set by a
\* setTokenURI transaction returns, as its token URI, the URI that was set.
\* (Every URI an L2 contract holds other than the initial empty one was set
\* by a setTokenURI transaction.)
C13_RoundTrip ==
  \A p \in Procs :
    /\ inp[p].flow = "update"
    /\ loc[p].tokenMetadata \notin {<<>>, EmptyUri}
    => loc[p].tokenUri = loc[p].tokenMetadata

\* C14: a deployment for an L1 address that holds no code ends with an error
\* once getByteCode has settled, makes no deployment call on L2 and leaves no
\* document for the address in the collection.
C14_EmptyCodeRejected ==
  \A p \in Procs :
    /\ inp[p].flow = "deploy" /\ inp[p].addr # 0
    /\ L1Code(inp[p].addr) = EmptyCode
    => /\ pc[p] = "done" /\ result[p].kind = "error"
       /\ \A i \in 1..Len(calls[p]) : calls[p][i].op # "deploy"
       /\ DocsFor(registry, inp[p].addr) = {}

\* C15: callContract answers UNSUPPORTED_FUNCTION, the outcome of a false
\* supportsFunction, exactly when no function fragment of the document's ABI
\* has the requested name; an event of that name does not count.
HasFunctionFragment(abi, name) ==
  \E i \in 1..Len(abi) : abi[i].type = "function" /\ abi[i].name = name

C15_FunctionFragmentsOnly ==
  \A p \in Procs :
    inp[p].flow = "call" /\ loc[p].doc > 0 /\ pc[p] = "done" =>
      (result[p].kind = "UNSUPPORTED_FUNCTION"
         <=> ~HasFunctionFragment(loc[p].abi, inp[p].fn))

\* C16: within one login every ledger call is issued only after each call
\* the login issued earlier has settled: L1 ownerOf before L1 tokenURI, L1
\* tokenURI before L2 ownerOf, L2 ownerOf before mint, mint (accepted) before
\* setTokenURI; and L1 tokenURI is issued only for a confirmed owner.
Settled(p, j, i) ==
  \E k \in (j + 1)..(i - 1) :
    /\ calls[p][k].chain = calls[p][j].chain
    /\ calls[p][k].op = calls[p][j].op
    /\ calls[p][k].ev # "issue"

C16_StepOrdering ==
  \A p \in Procs :
    IsLogin(p) =>
      \A i \in 1..Len(calls[p]) :
        calls[p][i].ev = "issue" =>
          /\ \A j \in 1..(i - 1) :
               calls[p][j].ev = "issue" => Settled(p, j, i)
          /\ calls[p][i].op = "tokenURI" => Confirmed(p)
          /\ calls[p][i].op = "setTokenURI" =>
               \E j \in 1..(i - 1) :
                 calls[p][j].op = "mint" /\ calls[p][j].ev = "ok"

\* C17: once a login of a confirmed owner has returned its success response,
\* no other request is in progress and every accepted L2 transaction has
\* been included, the token is minted on the bound L2 contract and its URI
\* is set.
URISet(l2, tok) ==
  l2owner[l2][tok] # ZERO_ADDRESS /\ l2uri[l2][tok] # EmptyUri

C17_Convergence ==
  \A p \in Procs :
    /\ IsLogin(p) /\ Confirmed(p)
    /\ pc[p] = "done" /\ result[p].kind = "ok"
    /\ \A q \in Procs \ {p} : pc[q] \in {"idle", "done"}
    /\ mempool["L2"] = <<>>
    => URISet(loc[p].l2, inp[p].tok)

\* C18: the URI a login or an update passes to setTokenURI is the complete
\* string that tokenURI returned to it on the other chain.
IssuedSetTokenURI(p) ==
  \E i \in 1..Len(calls[p]) :
    calls[p][i].op = "setTokenURI" /\ calls[p][i].ev = "issue"

C18_UriFidelity ==
  \A p \in Procs :
    inp[p].flow \in {"login", "update"} /\ IssuedSetTokenURI(p) =>
      loc[p].tokenUri = loc[p].tokenMetadata

\* C19: every token that has an owner on a bound L2 contract is owned there
\* by the account that, ignoring case, owns it on the L1 contract of the
\* same document (only login mints on L2).
C19_MintedToL1Owner ==
  \A i \in 1..Len(registry), t \in Tokens :
    l2owner[registry[i].l2Address][t] # ZERO_ADDRESS =>
      ToLowerCase(l2owner[registry[i].l2Address][t])
        = ToLowerCase(L1OwnerOf(registry[i].l1Address, t))

\* C20: with deployments in progress at the same time, the collection never
\* holds two documents with the same l1Address.
C20_UniqueL1Address ==
  \A a \in DeployAddrs : Cardinality(DocsFor(registry, a)) <= 1

\* C21: when a deployment has returned its success response, the collection
\* holds a document for its L1 address, the L2 address returned is the
\* l2Address of that document, and the document's byteCode is the code the
\* request read from L1.
C21_ResultMatchesRegistry ==
  \A p \in Procs :
    inp[p].flow = "deploy" /\ pc[p] = "done" /\ result[p].kind = "ok" =>
      LET i == FindOneByL1Address(registry, inp[p].addr) IN
        /\ i # 0
        /\ registry[i].l2Address = result[p].l2
        /\ registry[i].byteCode = loc[p].bytecode

====
